---- MODULE Spec2Model ----
(***************************************************************************)
(* Model of the hermes-relay ingestion stage (hermes-relay.py): the        *)
(* fingerprint function, the historical ledger reader, the ingestion       *)
(* filter and the run output writer, over a ledger of dated JSON files.    *)
(*                                                                         *)
(* Text is a sequence of one-character strings, so that str.strip() and    *)
(* the f-string "{title}-{link}" are computed character by character.      *)
(***************************************************************************)
EXTENDS Integers, Sequences, FiniteSets, TLC

\* ------------------------------------------------------------------ bounds
MaxDate    == 2   \* run dates (values of TODAY) are 1..MaxDate
MaxRuns    == 3   \* pipeline invocations per behaviour
NumFeeds   == 2   \* sources scanned per run (len(FEEDS) in the model)
MaxFetched == 2   \* feed items delivered to one run, all sources together
MaxTamper  == 1   \* external damage events to ledger files per behaviour
MaxText    == 2   \* length of the texts handed to the fingerprinting alone
MaxStored  == 2   \* articles in one ledger file handed to the reader alone

Dates == 1..MaxDate

\* ------------------------------------------------------------------ text
\* The characters str.strip() removes (those with str.isspace()): space, the
\* escapes \t \n \r \f, and, written as the characters themselves, U+000B,
\* U+001C, U+001D, U+001E, U+001F, U+0085, U+00A0 and U+1680. The remaining
\* ones (U+2000-U+200A, U+2028, U+2029, U+202F, U+205F, U+3000) cannot be
\* written in a string of this language, so no text here holds one.
Whitespace ==
    {" ", "\t", "\n", "\r", "\f",
     "", "", "", "", "", "", " ", " "}

Absent == <<"<absent>">>      \* a key the feed item does not carry

RECURSIVE lstrip(_)
lstrip(s) == IF s # <<>> /\ Head(s) \in Whitespace THEN lstrip(Tail(s)) ELSE s

RECURSIVE rstrip(_)
rstrip(s) ==
    IF s # <<>> /\ s[Len(s)] \in Whitespace
    THEN rstrip(SubSeq(s, 1, Len(s) - 1))
    ELSE s

\* variant: the text is taken as it comes
StripNothing(s) == s

\* str.strip(): leading and trailing whitespace removed
strip(s) == rstrip(lstrip(s))

\* dict.get(key, default)
get(item, key, default) == IF item[key] = Absent THEN default ELSE item[key]

\* hashlib.sha256(...).hexdigest(), taken to be collision-free: the digest is
\* the hashed text under a tag, so two digests are equal iff the texts are.
sha256(text) == <<"sha256", text>>

\* hash_item(title, link): key = f"{title}-{link}"; sha256 of it
hash_item(title, link) == sha256(title \o <<"-">> \o link)

\* ------------------------------------------------------------------ feed items
\* Raw feed entries as feedparser yields them (title, link, published,
\* updated, summary; each may be missing).
ItemA1 == [title |-> <<"\t", "a">>, link |-> <<"b", "-", "c">>,
           published |-> <<"p">>, updated |-> <<"u">>, summary |-> <<"s">>]
\* the same article as ItemA1 (equal after trimming), other payload
ItemA2 == [title |-> <<"a", " ">>, link |-> <<"b", "-", "c", " ">>,
           published |-> Absent, updated |-> <<"u">>, summary |-> Absent]
\* another article whose "{title}-{link}" text equals that of ItemA1
ItemB  == [title |-> <<"a", "-", "b">>, link |-> <<"c">>,
           published |-> Absent, updated |-> Absent, summary |-> <<"s">>]
\* an article whose summary holds a character outside ASCII
ItemC  == [title |-> <<"c">>, link |-> <<"c">>,
           published |-> <<"p">>, updated |-> Absent, summary |-> <<"é">>]
\* title empty after trimming
ItemNoTitle == [title |-> <<" ", "\n">>, link |-> <<"c">>,
                published |-> <<"p">>, updated |-> Absent, summary |-> <<"s">>]
\* link missing
ItemNoLink  == [title |-> <<"c">>, link |-> Absent,
                published |-> <<"p">>, updated |-> Absent, summary |-> <<"s">>]

FeedItems == {ItemA1, ItemA2, ItemB, ItemC, ItemNoTitle, ItemNoLink}

RECURSIVE SeqsUpTo(_, _)
SeqsUpTo(S, n) ==
    IF n = 0 THEN {<<>>}
    ELSE LET shorter == SeqsUpTo(S, n - 1)
         IN  shorter \cup {Append(q, x) : q \in {r \in shorter : Len(r) = n - 1}, x \in S}

\* What one feedparser.parse(url) plus the loop over feed.entries can deliver:
\* the items the loop gets through, and whether an exception then ends the
\* try block (raised by the parse when no item was delivered, or by the
\* extraction of the next item otherwise).
Sources == [entries : SeqsUpTo(FeedItems, MaxFetched), fails : BOOLEAN]

\* ------------------------------------------------------------------ ledger files
\* Content of hermes_signal_<date>.json.
Missing  == [kind |-> "missing",  articles |-> <<>>]   \* no such file
BadJson  == [kind |-> "badjson",  articles |-> <<>>]   \* json.load raises JSONDecodeError
BadEnc   == [kind |-> "badenc",   articles |-> <<>>]   \* not UTF-8: UnicodeDecodeError
BadShape == [kind |-> "badshape", articles |-> <<>>]   \* valid JSON, a non-empty object
                                                       \* or string ({"a":1}, "abc"): the
                                                       \* loop over it yields strings,
                                                       \* AttributeError in the reader
Dangling == [kind |-> "dangling", articles |-> <<>>]   \* a name glob lists and open()
                                                       \* does not find (a link to a file
                                                       \* that is gone): FileNotFoundError
JsonList(items) == [kind |-> "json", articles |-> items]

\* An element of a JSON list that is no object (1, "x", null): it has no
\* .get and no keys.
NoDict   == <<"<no dict>">>
NoRecord == [title |-> NoDict, link |-> NoDict, published |-> NoDict, summary |-> NoDict]
IsDict(article) == article # NoRecord

Damage == {BadJson, BadEnc, BadShape}

VARIABLES
    ledger,          \* Dates -> file content: the hermes_signal_*.json files
    pc,              \* "idle" | "load" | "fetch" | "save" | "exited"
    TODAY,           \* run date of the current process
    previous_hashes, \* result of load_previous_articles
    previous_count,  \* its previous_count
    warnings,        \* dates of the files it warned about
    seen_hashes,     \* module global
    all_items,       \* module global
    new_count,       \* fetch_and_parse local
    skipped_count,   \* fetch_and_parse local
    feedIdx,         \* position of the loop over FEEDS
    fetched,         \* the feed items the loop got through, in order, with source
    failedFeeds,     \* indexes of the sources whose try block ended in except
    exit_code,       \* exit status of the last process
    crashedIn,       \* "" | "load" | "save": where an uncaught exception ended it
    runs,            \* invocations so far
    tampers,         \* damage events so far
    persisted,       \* history: <<title, link, date>> of every article a run saved
    readable,        \* history: no ledger file was ever left unreadable
    hin,             \* two raw (title, link) pairs handed to the fingerprinting
    hout,            \* their two digests, <<>> before they are computed
    env,             \* the environment variables that are set
    now,             \* the hour of the invocation, in hours UTC since day 1, 00:00
    tz,              \* offset of the local timezone from UTC, in hours
    o_pc,            \* orchestrator: position in main
    o_exit,          \* orchestrator: exit status
    started,         \* the scripts the orchestrator started, in order
    success,         \* "Hermes Relay pipeline completed successfully." printed
    s_pc,            \* summarizer: "idle" | "main" | "exited"
    s_today,         \* summarizer: module global today
    s_loaded,        \* date of the file load_articles opened, 0 when none
    s_llm,           \* call_llm was called
    s_email,         \* send_email was called
    s_exit,          \* summarizer: exit status
    htmlFile,        \* hermes_briefing_{today}.html exists
    outFile,         \* hermes_llm_top3_{today}.json, as the summarizer last met or
                     \* left it: "absent", or "older" | "newer" than the signal file
    outDoc           \* the document it holds: NoDoc, NullDoc, ErrorDoc or a result

vars == <<ledger, pc, TODAY, previous_hashes, previous_count, warnings,
          seen_hashes, all_items, new_count, skipped_count, feedIdx, fetched,
          failedFeeds, exit_code, crashedIn, runs, tampers, persisted, readable,
          hin, hout,
          env, now, tz, o_pc, o_exit, started, success,
          s_pc, s_today, s_loaded, s_llm, s_email, s_exit, htmlFile, outFile, outDoc>>

hashVars == <<hin, hout>>

stageVars == <<env, now, tz, o_pc, o_exit, started, success,
               s_pc, s_today, s_loaded, s_llm, s_email, s_exit, htmlFile, outFile, outDoc>>

procVars == <<previous_hashes, previous_count, warnings, seen_hashes, all_items,
              new_count, skipped_count, feedIdx, fetched, failedFeeds>>

\* OUTPUT_JSON is the file of date TODAY; glob + sorted(reverse=True) lists the
\* existing files, most recent first.
RECURSIVE DescendingFrom(_, _)
DescendingFrom(d, led) ==
    IF d = 0 THEN <<>>
    ELSE (IF led[d].kind # "missing" THEN <<d>> ELSE <<>>) \o DescendingFrom(d - 1, led)

\* the dates of led are 1..n
previous_files(led) == DescendingFrom(Cardinality(DOMAIN led), led)

\* variant: an article is counted only when its fingerprint is new
RECURSIVE LoadArticlesDistinct(_, _)
LoadArticlesDistinct(articles, acc) ==
    IF articles = <<>> THEN acc
    ELSE LET article == Head(articles)
             title   == strip(get(article, "title", <<>>))
             link    == strip(get(article, "link", <<>>))
             uid     == hash_item(title, link)
         IN  IF ~IsDict(article) THEN [acc EXCEPT !.ok = FALSE]
             ELSE IF title # <<>> /\ link # <<>> /\ uid \notin acc.hashes
             THEN LoadArticlesDistinct(Tail(articles),
                      [acc EXCEPT !.hashes = @ \cup {uid}, !.count = @ + 1])
             ELSE LoadArticlesDistinct(Tail(articles), acc)

\* the inner loop of load_previous_articles over the articles of one file;
\* article.get on an element that is no object raises AttributeError, which
\* the except clause of the outer loop does not catch
RECURSIVE LoadArticles(_, _)
LoadArticles(articles, acc) ==
    IF articles = <<>> THEN acc
    ELSE LET article == Head(articles)
             title   == strip(get(article, "title", <<>>))
             link    == strip(get(article, "link", <<>>))
         IN  IF ~IsDict(article) THEN [acc EXCEPT !.ok = FALSE]
             ELSE IF title # <<>> /\ link # <<>>
             THEN LoadArticles(Tail(articles),
                      [acc EXCEPT !.hashes = @ \cup {hash_item(title, link)},
                                  !.count  = @ + 1])
             ELSE LoadArticles(Tail(articles), acc)

\* variant: one output file whatever the date
OutputJsonFixed(today) == 1

\* line 23: OUTPUT_JSON = f"hermes_signal_{TODAY}.json"
OUTPUT_JSON(today) == today

\* variant: the file of the run date is read like the others
IsOutputJsonNever(f, today) == FALSE

\* line 44: if file_path == OUTPUT_JSON
IsOutputJson(f, today) == f = OUTPUT_JSON(today)

\* the loop of load_previous_articles over the files, in the order given
RECURSIVE LoadFiles(_, _, _, _)
LoadFiles(files, led, today, acc) ==
    IF files = <<>> \/ ~acc.ok THEN acc
    ELSE LET f    == Head(files)
             rest == Tail(files)
         IN  IF IsOutputJson(f, today) THEN LoadFiles(rest, led, today, acc)
             ELSE IF led[f].kind = "json"
                  THEN LoadFiles(rest, led, today, LoadArticles(led[f].articles, acc))
             ELSE IF led[f].kind \in {"badjson", "dangling"}
                  THEN LoadFiles(rest, led, today,      \* except (FileNotFoundError,
                                 [acc EXCEPT !.warned = @ \cup {f}])  \* JSONDecodeError)
             ELSE [acc EXCEPT !.ok = FALSE]

LoadStart == [ok |-> TRUE, hashes |-> {}, count |-> 0, warned |-> {}]

load_previous_articles(led, today) ==
    LoadFiles(previous_files(led), led, today, LoadStart)

\* ------------------------------------------------------------------ actions
RunInit ==
    /\ pc = "idle"
    /\ TODAY = 1
    /\ previous_hashes = {}
    /\ previous_count = 0
    /\ warnings = {}
    /\ seen_hashes = {}
    /\ all_items = <<>>
    /\ new_count = 0
    /\ skipped_count = 0
    /\ feedIdx = 1
    /\ fetched = <<>>
    /\ failedFeeds = {}
    /\ exit_code = 0
    /\ crashedIn = ""
    /\ runs = 0
    /\ tampers = 0
    /\ persisted = {}
    /\ readable = TRUE

\* The orchestrator and the summarizer have not been started.
StageInit ==
    /\ o_pc = "idle"
    /\ o_exit = 0
    /\ started = <<>>
    /\ success = FALSE
    /\ s_pc = "idle"
    /\ s_today = 0
    /\ s_loaded = 0
    /\ s_llm = FALSE
    /\ s_email = FALSE
    /\ s_exit = 0

\* The relay alone: no pipeline around it.
NoPipeline ==
    /\ StageInit
    /\ env = {}
    /\ now = 0
    /\ tz = 0
    /\ htmlFile = FALSE
    /\ outFile = "absent"
    /\ outDoc = [kind |-> "none", headlines |-> <<>>]

\* No ledger file exists and no process has run.
Init ==
    /\ RunInit
    /\ NoPipeline
    /\ ledger = [d \in Dates |-> Missing]
    /\ hin = <<>>
    /\ hout = <<>>

\* variant: the fingerprints of the ledger are not put into the seen-set
UpdateDropped(seen, previous) == seen

\* line 68: seen_hashes.update(previous_hashes)
update(seen, previous) == seen \cup previous

\* A new process: module level of hermes-relay.py.
StartRun(d) ==
    /\ pc \in {"idle", "exited"}
    /\ runs < MaxRuns
    /\ runs' = runs + 1
    /\ pc' = "load"
    /\ TODAY' = d
    /\ previous_hashes' = {}
    /\ previous_count' = 0
    /\ warnings' = {}
    /\ seen_hashes' = {}
    /\ all_items' = <<>>
    /\ new_count' = 0
    /\ skipped_count' = 0
    /\ feedIdx' = 1
    /\ fetched' = <<>>
    /\ failedFeeds' = {}
    /\ exit_code' = 0
    /\ crashedIn' = ""
    /\ UNCHANGED <<ledger, tampers, persisted, readable, hashVars, stageVars>>

\* fetch_and_parse, first two statements.
LoadPrevious ==
    /\ pc = "load"
    /\ LET r == load_previous_articles(ledger, TODAY)
       IN  IF r.ok
           THEN /\ previous_hashes' = r.hashes
                /\ previous_count' = r.count
                /\ warnings' = r.warned
                /\ seen_hashes' = update(seen_hashes, r.hashes)
                /\ pc' = "fetch"
                /\ UNCHANGED <<exit_code, crashedIn>>
           ELSE /\ pc' = "exited"
                /\ exit_code' = 1
                /\ crashedIn' = "load"
                /\ warnings' = r.warned     \* printed before the exception
                /\ UNCHANGED <<previous_hashes, previous_count, seen_hashes>>
    /\ UNCHANGED <<ledger, TODAY, all_items, new_count, skipped_count, feedIdx,
                   fetched, failedFeeds, runs, tampers, persisted, readable, hashVars, stageVars>>

\* variant: dropped only when both are empty
MalformedBoth(title, link) == title = <<>> /\ link = <<>>

\* line 83: if not title or not link
Malformed(title, link) == title = <<>> \/ link = <<>>

\* line 87: if uid in seen_hashes
AlreadySeen(uid, seen) == uid \in seen

\* variant: the fingerprint of an admitted item is not recorded
AdmitUnrecorded(st, uid, article) ==
    [st EXCEPT !.new   = @ + 1,
               !.items = Append(@, article)]

\* variant: an admitted item is not counted
AdmitUncounted(st, uid, article) ==
    [st EXCEPT !.seen  = @ \cup {uid},
               !.items = Append(@, article)]

\* lines 91-99: the item is new
Admit(st, uid, article) ==
    [st EXCEPT !.seen  = @ \cup {uid},
               !.new   = @ + 1,
               !.items = Append(@, article)]

\* the article record built from a feed item (lines 78-81 and 94-99)
Article(item) ==
    [title     |-> strip(get(item, "title", <<>>)),
     link      |-> strip(get(item, "link", <<>>)),
     published |-> get(item, "published", get(item, "updated", <<>>)),
     summary   |-> get(item, "summary", <<>>)]

\* the loop over feed.entries of one source
RECURSIVE ParseItems(_, _)
ParseItems(items, st) ==
    IF items = <<>> THEN st
    ELSE LET article == Article(Head(items))
             uid     == hash_item(article.title, article.link)
         IN  IF Malformed(article.title, article.link)
             THEN ParseItems(Tail(items), st)
             ELSE IF AlreadySeen(uid, st.seen)
                  THEN ParseItems(Tail(items), [st EXCEPT !.skipped = @ + 1])
                  ELSE ParseItems(Tail(items), Admit(st, uid, article))

Tagged(src, idx) == [i \in 1..Len(src.entries) |-> [feed |-> idx, item |-> src.entries[i]]]

\* variant: the except clause leaves the loop over FEEDS
FetchSourceBreak(src) ==
    /\ pc = "fetch"
    /\ Len(fetched) + Len(src.entries) <= MaxFetched
    /\ LET st == ParseItems(src.entries,
                     [seen |-> seen_hashes, items |-> all_items,
                      new |-> new_count, skipped |-> skipped_count])
       IN  /\ seen_hashes' = st.seen
           /\ all_items' = st.items
           /\ new_count' = st.new
           /\ skipped_count' = st.skipped
    /\ fetched' = fetched \o Tagged(src, feedIdx)
    /\ failedFeeds' = IF src.fails THEN failedFeeds \cup {feedIdx} ELSE failedFeeds
    /\ feedIdx' = feedIdx + 1
    /\ pc' = IF feedIdx = NumFeeds \/ src.fails THEN "save" ELSE "fetch"
    /\ UNCHANGED <<ledger, TODAY, previous_hashes, previous_count, warnings,
                   exit_code, crashedIn, runs, tampers, persisted, readable, hashVars, stageVars>>

\* One iteration of the loop over FEEDS: parse, the loop over the entries,
\* and the except clause that prints the error and continues.
FetchSource(src) ==
    /\ pc = "fetch"
    /\ Len(fetched) + Len(src.entries) <= MaxFetched
    /\ LET st == ParseItems(src.entries,
                     [seen |-> seen_hashes, items |-> all_items,
                      new |-> new_count, skipped |-> skipped_count])
       IN  /\ seen_hashes' = st.seen
           /\ all_items' = st.items
           /\ new_count' = st.new
           /\ skipped_count' = st.skipped
    /\ fetched' = fetched \o Tagged(src, feedIdx)
    /\ failedFeeds' = IF src.fails THEN failedFeeds \cup {feedIdx} ELSE failedFeeds
    /\ feedIdx' = feedIdx + 1
    /\ pc' = IF feedIdx = NumFeeds THEN "save" ELSE "fetch"
    /\ UNCHANGED <<ledger, TODAY, previous_hashes, previous_count, warnings,
                   exit_code, crashedIn, runs, tampers, persisted, readable, hashVars, stageVars>>

\* variant: the entry is written even when it is empty
NothingToSaveNever(items) == FALSE

\* line 108: if not all_items
NothingToSave(items) == items = <<>>

\* The characters of the texts here that UTF-8 encodes in several bytes;
\* ensure_ascii=False writes them as they are.
MultiByte == {"é", "", " ", " "}

HasMultiByte(items) ==
    \E i \in 1..Len(items) : \E key \in {"title", "link", "published", "summary"} :
        \E k \in 1..Len(items[i][key]) : items[i][key][k] \in MultiByte

WriteOutcomes == {"ok", "open_fails", "dump_fails", "dump_cut"}

\* save_output, and the end of the process. The write either succeeds, or
\* open() raises and leaves the file as it was, or the write fails after
\* open() truncated the file and leaves the beginning of the document: text
\* that is no JSON, or, when the bytes end inside a character that takes
\* several, bytes that are no UTF-8.
SaveOutput(outcome) ==
    /\ pc = "save"
    /\ pc' = "exited"
    /\ IF NothingToSave(all_items)
       THEN /\ outcome = "ok"
            /\ exit_code' = 0
            /\ UNCHANGED <<ledger, crashedIn, persisted, readable>>
       ELSE CASE outcome = "ok" ->
                 /\ ledger' = [ledger EXCEPT ![OUTPUT_JSON(TODAY)] = JsonList(all_items)]
                 /\ persisted' = persisted \cup
                        {<<all_items[i].title, all_items[i].link, TODAY>> :
                             i \in 1..Len(all_items)}
                 /\ exit_code' = 0
                 /\ UNCHANGED <<crashedIn, readable>>
              [] outcome = "open_fails" ->
                 /\ exit_code' = 1
                 /\ crashedIn' = "save"
                 /\ UNCHANGED <<ledger, persisted, readable>>
              [] outcome = "dump_fails" ->
                 /\ ledger' = [ledger EXCEPT ![OUTPUT_JSON(TODAY)] = BadJson]
                 /\ exit_code' = 1
                 /\ crashedIn' = "save"
                 /\ readable' = FALSE
                 /\ UNCHANGED persisted
              [] outcome = "dump_cut" ->
                 /\ HasMultiByte(all_items)
                 /\ ledger' = [ledger EXCEPT ![OUTPUT_JSON(TODAY)] = BadEnc]
                 /\ exit_code' = 1
                 /\ crashedIn' = "save"
                 /\ readable' = FALSE
                 /\ UNCHANGED persisted
    /\ UNCHANGED <<TODAY, procVars, runs, tampers, hashVars, stageVars>>

\* The environment damages a ledger file between two runs.
Tamper(d, damage) ==
    /\ pc \in {"idle", "exited"}
    /\ tampers < MaxTamper
    /\ tampers' = tampers + 1
    /\ ledger' = [ledger EXCEPT ![d] = damage]
    /\ readable' = FALSE
    /\ UNCHANGED <<pc, TODAY, procVars, exit_code, crashedIn, runs, persisted, hashVars, stageVars>>

Next ==
    \/ \E d \in Dates : StartRun(d)
    \/ LoadPrevious
    \/ \E src \in Sources : FetchSource(src)
    \/ \E outcome \in WriteOutcomes : SaveOutput(outcome)
    \/ \E d \in Dates, damage \in Damage : Tamper(d, damage)

Spec == Init /\ [][Next]_vars

\* ------------------------------------------------------------------ fingerprinting alone
Alphabet == {" ", "-", "a"}

Texts == SeqsUpTo(Alphabet, MaxText)

\* The fingerprint of an entry as both callers of hash_item take it: title
\* and link stripped, then hashed (lines 51-54 and 78-86).
Fingerprint(title, link) == hash_item(strip(title), strip(link))

InitHash ==
    /\ RunInit
    /\ NoPipeline
    /\ ledger = [d \in Dates |-> Missing]
    /\ hin \in [t1 : Texts, l1 : Texts, t2 : Texts, l2 : Texts]
    /\ hout = <<>>

HashBoth ==
    /\ hout = <<>>
    /\ hout' = <<Fingerprint(hin.t1, hin.l1), Fingerprint(hin.t2, hin.l2)>>
    /\ UNCHANGED <<ledger, pc, TODAY, procVars, exit_code, crashedIn, runs,
                   tampers, persisted, readable, hin, stageVars>>

NextHash == HashBoth

SpecHash == InitHash /\ [][NextHash]_vars

\* ------------------------------------------------------------------ ledger reader alone
\* Article records a ledger file can hold: those the writer stores, and
\* records of a file put there by hand (another article, text not trimmed,
\* link empty).
StoredRecords ==
    {Article(ItemA1), Article(ItemB), Article(ItemC),
     [title |-> <<"d">>, link |-> <<"d">>, published |-> <<>>, summary |-> <<>>],
     [title |-> <<"a", " ">>, link |-> <<"b", "-", "c">>,
      published |-> <<>>, summary |-> <<>>],
     [title |-> <<"c">>, link |-> <<" ">>,
      published |-> <<"p">>, summary |-> <<>>]}

\* What a file of the ledger can be: absent, listed and not to be opened, no
\* JSON, no UTF-8, JSON that is no list, a list with an element that is no
\* record, or a list of records.
FileContents ==
    {Missing, Dangling, BadJson, BadEnc, BadShape,
     JsonList(<<Article(ItemC), NoRecord>>)} \cup
        {JsonList(q) : q \in SeqsUpTo(StoredRecords, MaxStored)}

\* The dates of the ledger handed to the reader alone: one more than the run
\* dates, so that a run can find its own file and two others.
ReaderDates == 1..(MaxDate + 1)

\* Any ledger, before a run.
InitReader ==
    /\ RunInit
    /\ NoPipeline
    /\ ledger \in [ReaderDates -> FileContents]
    /\ hin = <<>>
    /\ hout = <<>>

\* A run on a date of the ledger, up to the return of the reader.
NextReader ==
    \/ \E d \in ReaderDates : StartRun(d)
    \/ LoadPrevious

SpecReader == InitReader /\ [][NextReader]_vars

\* ------------------------------------------------------------------ one run on any ledger
\* What the sources deliver to the run below: nothing, one article under two
\* payloads, another article, an item without title.
RunSources ==
    {src \in Sources :
         /\ ~src.fails
         /\ src.entries \in {<<>>, <<ItemA1>>, <<ItemA2>>, <<ItemA1, ItemA2>>,
                              <<ItemC>>, <<ItemNoTitle>>}}

InitRun ==
    /\ RunInit
    /\ NoPipeline
    /\ ledger \in [Dates -> FileContents]
    /\ hin = <<>>
    /\ hout = <<>>

\* A run on a date of the ledger or on the day after, up to the end of
\* fetch_and_parse.
NextRun ==
    \/ \E d \in 1..(MaxDate + 1) : StartRun(d)
    \/ LoadPrevious
    \/ \E src \in RunSources : FetchSource(src)

SpecRun == InitRun /\ [][NextRun]_vars

\* ------------------------------------------------------------------ the pipeline
relayVars == <<ledger, pc, TODAY, procVars, exit_code, crashedIn, runs, tampers,
               persisted, readable, hashVars>>

RequiredEnv == {"AZURE_OPENAI_ENDPOINT", "AZURE_OPENAI_API_KEY"}

\* hermes-relay.py line 22: datetime.utcnow().strftime("%Y-%m-%d"),
\* the calendar date in UTC; day 1 starts at hour 0.
UtcDate(h) == (h \div 24) + 1

\* llm_score_and_summarize.py line 39: date.today().isoformat(),
\* the calendar date of the local timezone.
LocalDate(h, offset) == ((h + offset) \div 24) + 1

\* Path(f"hermes_signal_{today}.json")
SignalFile(led, d) == IF d \in DOMAIN led THEN led[d] ELSE Missing

\* variant: a signal file that exists is taken to hold new articles
HasNewArticlesExists(sig) == sig.kind # "missing"

\* variant: the stage takes it that there are new articles whatever the file is
HasNewArticlesAlways(sig) == TRUE

\* main, lines 562-571: has_new_articles, for a file that could be decoded:
\* the document is truthy and has a length greater than 0
HasNewArticles(sig) ==
    \/ sig.kind = "json" /\ sig.articles # <<>>
    \/ sig.kind = "badshape"

\* Path.exists(): a link to a file that is gone does not exist
Exists(file) == file.kind \notin {"missing", "dangling"}

\* load_articles, lines 71-95: today's file, else the latest file; any
\* document that is not empty is returned. The loop over a document that is
\* no list yields strings, elements that are no records.
load_articles(led, today) ==
    LET files        == previous_files(led)
        file_to_load == IF Exists(SignalFile(led, today)) THEN today
                        ELSE IF files # <<>> THEN files[1] ELSE 0
    IN  IF file_to_load = 0
        THEN [ok |-> FALSE, from |-> 0, articles |-> <<>>]
        ELSE IF HasNewArticles(led[file_to_load]) /\ led[file_to_load].kind = "json"
             THEN [ok |-> TRUE, from |-> file_to_load,
                   articles |-> led[file_to_load].articles]
             ELSE IF led[file_to_load].kind = "badshape"
             THEN [ok |-> TRUE, from |-> file_to_load, articles |-> <<NoRecord>>]
             ELSE [ok |-> FALSE, from |-> file_to_load, articles |-> <<>>]

\* The text the language model answers with is taken by the headlines the
\* patterns of format_email_html (lines 349-368) find in it, in order: none,
\* the title of an article, that title in capitals, a title of no article.
Headlines == {<<>>, << <<"c">> >>, << <<"C">> >>, << <<"x">> >>}

\* What a call of call_llm (lines 212-285) meets:
\*   "text"          status 200 and a text; its headlines are given
\*   "null_content"  status 200, message content null
\*   "http_error"    raise_for_status raises HTTPError
\*   "no_response"   requests.post raises, or the answer has no choices
LlmOutcomes ==
    [kind : {"text"}, headlines : Headlines] \cup
        [kind : {"null_content", "http_error", "no_response"}, headlines : {<<>>}]

\* Documents of the output file: none, {"top_articles": null}, the error
\* document call_llm writes (lines 262-270), {"top_articles": <text>}.
NoDoc    == [kind |-> "none", headlines |-> <<>>]
NullDoc  == [kind |-> "null_result", headlines |-> <<>>]
ErrorDoc == [kind |-> "error", headlines |-> <<>>]

\* The document main writes to the output file for a text call_llm returned.
ResultDoc(llm) == [kind |-> "result", headlines |-> llm.headlines]

\* str.lower() on the letters of ASCII
UpperCase == <<"A", "B", "C", "D", "E", "F", "G", "H", "I", "J", "K", "L", "M",
               "N", "O", "P", "Q", "R", "S", "T", "U", "V", "W", "X", "Y", "Z">>
LowerCase == <<"a", "b", "c", "d", "e", "f", "g", "h", "i", "j", "k", "l", "m",
               "n", "o", "p", "q", "r", "s", "t", "u", "v", "w", "x", "y", "z">>
lower(s) ==
    [i \in 1..Len(s) |->
         IF \E k \in DOMAIN UpperCase : UpperCase[k] = s[i]
         THEN LowerCase[CHOOSE k \in DOMAIN UpperCase : UpperCase[k] = s[i]]
         ELSE s[i]]

\* a in b, for two texts
Contains(a, b) ==
    \E i \in 0..(Len(b) - Len(a)) : SubSeq(b, i + 1, i + Len(a)) = a

\* article[key]: TypeError on an element that is no record, KeyError on a
\* record without the key
HasKey(article, key) == IsDict(article) /\ article[key] # Absent

\* the condition of loop n of match_headline_to_article (lines 292, 297, 304)
Matches(n, title, headline) ==
    IF n = 1 THEN strip(title) = strip(headline)
    ELSE IF n = 2 THEN lower(strip(title)) = lower(strip(headline))
    ELSE \/ Contains(lower(strip(title)), lower(strip(headline)))
         \/ Contains(lower(strip(headline)), lower(strip(title)))

\* match_headline_to_article, lines 288-307: its three loops over the
\* articles, from element i of loop n on. "link": article["link"] is
\* returned; "none": None is returned; "raises": article["title"] or
\* article["link"] raised.
RECURSIVE MatchFrom(_, _, _, _)
MatchFrom(n, i, headline, articles) ==
    IF i > Len(articles)
    THEN IF n < 3 THEN MatchFrom(n + 1, 1, headline, articles) ELSE "none"
    ELSE IF ~HasKey(articles[i], "title") THEN "raises"
    ELSE IF Matches(n, articles[i].title, headline)
         THEN IF HasKey(articles[i], "link") THEN "link" ELSE "raises"
    ELSE MatchFrom(n, i + 1, headline, articles)

match_headline_to_article(headline, articles) == MatchFrom(1, 1, headline, articles)

\* format_email_html(llm_response, articles), lines 310-488: whether it returns.
\* re.split raises TypeError on a response that is null, data["top_articles"]
\* raises KeyError on the error document. The articles are touched only for
\* a headline found (line 377, match_headline_to_article).
Formats(doc, articles) ==
    /\ doc.kind = "result"
    /\ \A k \in 1..Len(doc.headlines) :
           match_headline_to_article(doc.headlines[k], articles) # "raises"

\* main, lines 553-657, with call_llm. sig_newer: signal_file_time >
\* output_file_time, for a signal file that exists. The result: what was
\* called, the exit status, the files left.
main(led, today, html, out, doc, sig_newer, llm) ==
    LET sig    == SignalFile(led, today)
        la     == load_articles(led, today)
        newer  == Exists(sig) /\ sig_newer
        stop   == [llm |-> FALSE, email |-> FALSE, loaded |-> 0, exit |-> 1,
                   html |-> html, out |-> out, doc |-> doc]
        called == [stop EXCEPT !.loaded = la.from, !.llm = TRUE]
    IN  IF sig.kind = "badenc"
        THEN stop                                    \* UnicodeDecodeError, not caught
        ELSE IF ~HasNewArticles(sig)
        THEN [stop EXCEPT !.email = html, !.exit = 0]
        ELSE IF out = "absent" \/ newer
        THEN \* lines 614-657: should_regenerate
             IF ~la.ok THEN [stop EXCEPT !.loaded = la.from]
             ELSE IF llm.kind = "no_response" THEN called
             ELSE IF llm.kind = "http_error"
                  THEN [called EXCEPT !.out = "newer", !.doc = ErrorDoc]
             ELSE IF llm.kind = "null_content"
                  THEN [called EXCEPT !.out = "newer", !.doc = NullDoc]
             ELSE IF ~Formats(ResultDoc(llm), la.articles)
                  THEN [called EXCEPT !.out = "newer", !.doc = ResultDoc(llm)]
             ELSE [called EXCEPT !.out = "newer", !.doc = ResultDoc(llm),
                                 !.html = TRUE, !.email = TRUE, !.exit = 0]
        ELSE IF html
        THEN [stop EXCEPT !.email = TRUE, !.exit = 0]  \* lines 597-602
        ELSE \* lines 603-612: the HTML is made again from the output file
             IF ~la.ok \/ ~Formats(doc, la.articles) THEN [stop EXCEPT !.loaded = la.from]
             ELSE [stop EXCEPT !.email = TRUE, !.exit = 0, !.loaded = la.from,
                               !.html = TRUE]

\* The relay of this invocation wrote the signal file of date d.
RelayWrote(d) ==
    pc = "exited" /\ exit_code = 0 /\ all_items # <<>> /\ TODAY = d

\* The modification times main compares (lines 561, 575, 594), when the
\* summarizer starts: an output file found by the invocation is older than a
\* signal file the relay of the invocation wrote.
OutputAge(out, wrote) == IF out # "absent" /\ wrote THEN "older" ELSE out

\* The summarizer process: module level (lines 39-60), then main().
SummarizerMain(llm) ==
    /\ s_pc = "main"
    /\ s_pc' = "exited"
    /\ s_today' = LocalDate(now, tz)
    /\ LET today == LocalDate(now, tz)
           out   == OutputAge(outFile, RelayWrote(today))
       IN  IF ~(RequiredEnv \subseteq env)
           THEN /\ s_exit' = 1
                /\ outFile' = out
                /\ UNCHANGED <<s_loaded, s_llm, s_email, htmlFile, outDoc>>
           ELSE LET r == main(ledger, today, htmlFile, out, outDoc, out = "older", llm)
                IN  /\ s_exit' = r.exit
                    /\ s_loaded' = r.loaded
                    /\ s_llm' = r.llm
                    /\ s_email' = r.email
                    /\ htmlFile' = r.html
                    /\ outFile' = r.out
                    /\ outDoc' = r.doc
    /\ UNCHANGED <<relayVars, env, now, tz, o_pc, o_exit, started, success>>

\* orchestrator.py line 34: main()
Invoke ==
    /\ o_pc = "idle"
    /\ o_pc' = "check_env"
    /\ UNCHANGED <<relayVars, env, now, tz, o_exit, started, success,
                   s_pc, s_today, s_loaded, s_llm, s_email, s_exit, htmlFile, outFile, outDoc>>

\* check_env, lines 5-10
CheckEnv ==
    /\ o_pc = "check_env"
    /\ IF RequiredEnv \ env # {}
       THEN o_pc' = "exited" /\ o_exit' = 1
       ELSE o_pc' = "run_relay" /\ o_exit' = o_exit
    /\ UNCHANGED <<relayVars, env, now, tz, started, success,
                   s_pc, s_today, s_loaded, s_llm, s_email, s_exit, htmlFile, outFile, outDoc>>

\* variant: the return code of the script is not looked at
FailedNever(returncode) == FALSE

\* run_script, line 20
Failed(returncode) == returncode # 0

\* run_script("hermes-relay.py"), lines 13-18: the process is started
RunRelay ==
    /\ o_pc = "run_relay"
    /\ o_pc' = "wait_relay"
    /\ started' = Append(started, "hermes-relay.py")
    /\ UNCHANGED <<relayVars, env, now, tz, o_exit, success,
                   s_pc, s_today, s_loaded, s_llm, s_email, s_exit, htmlFile, outFile, outDoc>>

\* The relay process of the invocation starts: its date is that of the clock.
RelayStart ==
    /\ o_pc = "wait_relay"
    /\ pc = "idle"
    /\ StartRun(UtcDate(now))

\* run_script("hermes-relay.py"), lines 20-25: the process has exited
RelayReturned ==
    /\ o_pc = "wait_relay"
    /\ pc = "exited"
    /\ IF Failed(exit_code)
       THEN o_pc' = "exited" /\ o_exit' = 1
       ELSE o_pc' = "run_summarizer" /\ o_exit' = o_exit
    /\ UNCHANGED <<relayVars, env, now, tz, started, success,
                   s_pc, s_today, s_loaded, s_llm, s_email, s_exit, htmlFile, outFile, outDoc>>

\* run_script("llm_score_and_summarize.py"), lines 13-18
RunSummarizer ==
    /\ o_pc = "run_summarizer"
    /\ o_pc' = "wait_summarizer"
    /\ started' = Append(started, "llm_score_and_summarize.py")
    /\ s_pc' = "main"
    /\ UNCHANGED <<relayVars, env, now, tz, o_exit, success,
                   s_today, s_loaded, s_llm, s_email, s_exit, htmlFile, outFile, outDoc>>

\* run_script, lines 20-25, then main line 31
SummarizerReturned ==
    /\ o_pc = "wait_summarizer"
    /\ s_pc = "exited"
    /\ o_pc' = "exited"
    /\ IF Failed(s_exit)
       THEN o_exit' = 1 /\ success' = success
       ELSE o_exit' = 0 /\ success' = TRUE
    /\ UNCHANGED <<relayVars, env, now, tz, started,
                   s_pc, s_today, s_loaded, s_llm, s_email, s_exit, htmlFile, outFile, outDoc>>

\* Hours of an invocation: day 1 at 23:00 UTC, day 2 at 01:00 UTC.
Instants == {23, 25}

\* Local timezones: UTC-5, UTC, UTC+9.
Offsets == {0 - 5, 0, 9}

\* Time passes while the relay runs: the summarizer reads the clock again
\* (line 39) after the relay has exited.
ClockAdvances ==
    /\ o_pc = "run_summarizer"
    /\ \E later \in Instants : later > now /\ now' = later
    /\ UNCHANGED <<relayVars, env, tz, o_pc, o_exit, started, success,
                   s_pc, s_today, s_loaded, s_llm, s_email, s_exit, htmlFile, outFile, outDoc>>

\* Signal files found by an invocation.
SignalContents ==
    {Missing, JsonList(<<>>), BadJson, BadEnc, BadShape, JsonList(<<Article(ItemC)>>),
     JsonList(<<Article(ItemC), NoRecord>>),
     JsonList(<<[Article(ItemC) EXCEPT !.link = Absent]>>)}

\* Output files found by an invocation: none, or one an earlier invocation
\* wrote (a result with or without headlines, a result that is null, the
\* error document of call_llm).
OutputFiles ==
    {<<"absent", NoDoc>>} \cup
        ({"older", "newer"} \X
             ({NullDoc, ErrorDoc} \cup [kind : {"result"}, headlines : Headlines]))

\* What the feeds deliver in an invocation.
PipelineSources ==
    {src \in Sources : src.entries \in {<<>>, <<ItemC>>, <<ItemA1>>}}

InitPipeline ==
    /\ RunInit
    /\ StageInit
    /\ hin = <<>>
    /\ hout = <<>>
    /\ ledger \in [Dates -> SignalContents]
    /\ env \in SUBSET RequiredEnv
    /\ now \in Instants
    /\ tz \in Offsets
    /\ htmlFile \in BOOLEAN
    /\ \E o \in OutputFiles : outFile = o[1] /\ outDoc = o[2]

NextPipeline ==
    \/ Invoke
    \/ CheckEnv
    \/ RunRelay
    \/ RelayStart
    \/ LoadPrevious
    \/ \E src \in PipelineSources : FetchSource(src)
    \/ \E outcome \in WriteOutcomes : SaveOutput(outcome)
    \/ RelayReturned
    \/ ClockAdvances
    \/ RunSummarizer
    \/ \E llm \in LlmOutcomes : SummarizerMain(llm)
    \/ SummarizerReturned

SpecPipeline == InitPipeline /\ [][NextPipeline]_vars

\* ------------------------------------------------------------------ properties
\* Identity of an article: its trimmed (title, link).
Identity(rec) == <<strip(get(rec, "title", <<>>)), strip(get(rec, "link", <<>>))>>

WellFormed(rec) ==
    rec.title # NoDict /\ Identity(rec)[1] # <<>> /\ Identity(rec)[2] # <<>>

FingerprintOf(rec) == sha256(Identity(rec)[1] \o <<"-">> \o Identity(rec)[2])

\* The places <<date, index>> of the articles stored in the ledger.
Stored ==
    UNION {{<<d, n>> : n \in 1..Len(ledger[d].articles)} :
               d \in {e \in DOMAIN ledger : ledger[e].kind = "json"}}

StoredAt(p) == ledger[p[1]].articles[p[2]]

\* Positions of the feed items of the current run.
Positions == 1..Len(fetched)

\* The seen-set as it stands when item i of the run is processed: what the
\* ledger reader returned and the fingerprint of every well-formed item before i.
SeenBefore(i) ==
    previous_hashes \cup
        {FingerprintOf(fetched[j].item) :
             j \in {k \in 1..(i - 1) : WellFormed(fetched[k].item)}}

Unseen(i) == WellFormed(fetched[i].item) /\ FingerprintOf(fetched[i].item) \notin SeenBefore(i)

Occurrences(i) ==
    {j \in Positions : WellFormed(fetched[j].item)
                       /\ Identity(fetched[j].item) = Identity(fetched[i].item)}

Copies(id) == {n \in 1..Len(all_items) : Identity(all_items[n]) = id}

\* The articles a run must have admitted, in order, given its feed items.
RECURSIVE AdmittedUpTo(_)
AdmittedUpTo(i) ==
    IF i = 0 THEN <<>>
    ELSE IF Unseen(i) THEN Append(AdmittedUpTo(i - 1), Article(fetched[i].item))
         ELSE AdmittedUpTo(i - 1)

FetchOver == pc = "save" \/ (pc = "exited" /\ crashedIn # "load")

\* C1: the articles stored in all ledger entries together never hold two
\* articles with equal (trimmed title, trimmed link).
C1_NoDuplicateInLedger ==
    \A p \in Stored : \A q \in Stored :
        p # q => Identity(StoredAt(p)) # Identity(StoredAt(q))

\* C1 witness: two dated entries exist and the run that wrote the later one
\* skipped an article of the other as a duplicate.
C1_Witness ==
    /\ pc = "exited" /\ exit_code = 0
    /\ \A d \in Dates : ledger[d].kind = "json" /\ ledger[d].articles # <<>>
    /\ ledger[TODAY].articles = all_items
    /\ skipped_count > 0

\* C2: once a run has admitted an article and saved it in a ledger entry, no
\* run on a later date admits it again, as long as every ledger entry stayed
\* readable.
C2_NeverAdmittedAgainLater ==
    readable =>
        \A n \in 1..Len(all_items) : \A d \in Dates :
            d < TODAY => <<all_items[n].title, all_items[n].link, d>> \notin persisted

\* C3: an article that occurs in several feed items of one run, and whose
\* fingerprint is not in the seen-set when its first occurrence is reached,
\* is admitted exactly once, as the record of that first occurrence; the
\* later occurrences are counted as duplicates.
C3_FirstOccurrenceOnly ==
    \A i \in Positions :
        LET occ == Occurrences(i)
        IN  (Unseen(i) /\ Cardinality(occ) >= 2 /\ \A j \in occ : i <= j) =>
                /\ Cardinality(Copies(Identity(fetched[i].item))) = 1
                /\ \E n \in 1..Len(all_items) : all_items[n] = Article(fetched[i].item)
                /\ skipped_count >= Cardinality(occ) - 1

\* C3 witness: the same article came from two different sources with
\* different payloads, and the run ended with one copy of it.
C3_Witness ==
    /\ pc = "exited" /\ exit_code = 0
    /\ Len(fetched) = 2
    /\ fetched[1].feed # fetched[2].feed
    /\ fetched[1].item # fetched[2].item
    /\ Unseen(1)
    /\ Identity(fetched[1].item) = Identity(fetched[2].item)
    /\ all_items = <<Article(fetched[1].item)>>

\* C4: a feed item whose title or link is empty after trimming is never
\* admitted, is counted neither as new nor as duplicate, and adds no
\* fingerprint to the seen-set.
C4_MalformedDropped ==
    /\ \A n \in 1..Len(all_items) : WellFormed(all_items[n])
    /\ new_count + skipped_count =
           Cardinality({i \in Positions : WellFormed(fetched[i].item)})
    /\ pc # "load" =>
           seen_hashes = previous_hashes \cup
               {FingerprintOf(fetched[i].item) :
                    i \in {k \in Positions : WellFormed(fetched[k].item)}}

\* C4 witness: a run got an item without title and an item without link
\* and admitted nothing and counted nothing.
C4_Witness ==
    /\ FetchOver
    /\ \E i \in Positions : Identity(fetched[i].item)[1] = <<>>
    /\ \E i \in Positions : Identity(fetched[i].item)[2] = <<>>
    /\ all_items = <<>> /\ new_count = 0 /\ skipped_count = 0
    /\ seen_hashes = previous_hashes

\* Every item the run fetched was already seen when it was processed.
NothingNew == \A i \in Positions : ~Unseen(i)

\* C5: a run in which every fetched article is already seen, or nothing is
\* fetched, writes nothing: every ledger file is after the run what it was.
C5_EmptyRunWritesNothing ==
    [][(pc = "save" /\ NothingNew) => ledger' = ledger]_vars

\* C5 witness: a run fetched only an article of an earlier entry and ended
\* without an entry of its own date.
C5_Witness ==
    /\ pc = "exited" /\ exit_code = 0
    /\ NothingNew
    /\ \E i \in Positions : WellFormed(fetched[i].item)
    /\ ledger[TODAY] = Missing

\* The fingerprints of the well-formed articles of the readable entries
\* other than the one of date today.
LedgerFingerprints(today) ==
    {FingerprintOf(StoredAt(p)) :
         p \in {q \in Stored : q[1] # today /\ WellFormed(StoredAt(q))}}

\* The files the glob lists.
ExistingFiles == {d \in DOMAIN ledger : ledger[d].kind # "missing"}

ScanOrders ==
    {o \in [1..Cardinality(ExistingFiles) -> ExistingFiles] :
         \A i, j \in DOMAIN o : i # j => o[i] # o[j]}

\* C6: the ledger reader returns exactly the fingerprints of the articles
\* with a title and a link that are not empty after trimming, of all
\* existing entries but the one of the run date, in whatever order the
\* entries are scanned.
C6_ReaderReturnsExactlyTheLedger ==
    pc \in {"fetch", "save"} =>
        /\ previous_hashes = LedgerFingerprints(TODAY)
        /\ \A o \in ScanOrders :
               LoadFiles(o, ledger, TODAY, LoadStart).hashes = previous_hashes

\* C6 witness: the entry of the run date exists with an article of its own
\* and is left out; two other entries are read, the fingerprints of both are
\* returned, and one of them holds a record that is not trimmed and a record
\* whose link is empty after trimming.
C6_Witness ==
    /\ pc = "fetch"
    /\ \A d \in DOMAIN ledger : ledger[d].kind = "json" /\ ledger[d].articles # <<>>
    /\ \E p \in Stored :
           /\ p[1] = TODAY /\ WellFormed(StoredAt(p))
           /\ FingerprintOf(StoredAt(p)) \notin previous_hashes
    /\ \E p \in Stored : \E q \in Stored :
           /\ p[1] # TODAY /\ q[1] # TODAY /\ p[1] # q[1]
           /\ WellFormed(StoredAt(p)) /\ WellFormed(StoredAt(q))
           /\ FingerprintOf(StoredAt(p)) # FingerprintOf(StoredAt(q))
           /\ StoredAt(p).title # strip(StoredAt(p).title)
    /\ \E p \in Stored : p[1] # TODAY /\ ~WellFormed(StoredAt(p))
    /\ Cardinality(previous_hashes) = 2

\* C7: an unreadable ledger entry never aborts the run: no run ends in the
\* ledger reader.
C7_UnreadableEntryNeverAborts == crashedIn # "load"

\* C8: a failing source does not stop the run: every source is gone through
\* and the run admits exactly the unseen articles of all the items it got,
\* those of the failing sources and of the sources after them included.
C8_FailureIsolation ==
    /\ FetchOver => feedIdx = NumFeeds + 1
    /\ all_items = AdmittedUpTo(Len(fetched))

\* C8 witness: the first source failed after one article, and the article
\* of the second source was admitted and saved behind it.
C8_Witness ==
    /\ pc = "exited" /\ exit_code = 0
    /\ 1 \in failedFeeds
    /\ Len(fetched) = 2 /\ fetched[1].feed = 1 /\ fetched[2].feed = 2
    /\ Len(all_items) = 2
    /\ ledger[TODAY] = JsonList(all_items)

\* C9: a run ends in failure exactly when the write of its entry failed.
C9_OnlyWriteFailureFails ==
    pc = "exited" => (exit_code # 0 <=> crashedIn = "save")

\* C10: two well-formed articles have the same fingerprint if and only if
\* their trimmed (title, link) pairs are identical.
C10_FingerprintIffIdentity ==
    (/\ hout # <<>>
     /\ strip(hin.t1) # <<>> /\ strip(hin.l1) # <<>>
     /\ strip(hin.t2) # <<>> /\ strip(hin.l2) # <<>>) =>
        (hout[1] = hout[2] <=>
             (strip(hin.t1) = strip(hin.t2) /\ strip(hin.l1) = strip(hin.l2)))

\* Trimming, said without str.strip(): the text from its first to its last
\* character that is no whitespace.
Inner(s) == {i \in 1..Len(s) : s[i] \notin Whitespace}

Trimmed(s) ==
    IF Inner(s) = {} THEN <<>>
    ELSE SubSeq(s, CHOOSE i \in Inner(s) : \A j \in Inner(s) : i <= j,
                   CHOOSE i \in Inner(s) : \A j \in Inner(s) : j <= i)

TrimmedPair(rec) == <<Trimmed(get(rec, "title", <<>>)), Trimmed(get(rec, "link", <<>>))>>

Complete(pair) == pair[1] # <<>> /\ pair[2] # <<>>

Digest(pair) == sha256(pair[1] \o <<"-">> \o pair[2])

\* The trimmed (title, link) of the records the reader scanned, and of the
\* feed items the run went through.
ScannedPairs == {TrimmedPair(StoredAt(p)) : p \in {q \in Stored : q[1] # TODAY}}

FetchedPairs == {TrimmedPair(fetched[i].item) : i \in Positions}

\* C11: the program trims title and link before it hashes them, in the
\* reader and in the filter: every fingerprint it holds is the digest of a
\* trimmed title and a trimmed link, an entry has the fingerprint of its
\* trimmed text, and so entries that are equal after trimming have one
\* fingerprint: of a scanned record and the feed items equal to it after
\* trimming none is admitted, of feed items equal after trimming at most one.
C11_EqualAfterTrimmingSameFingerprint ==
    pc \in {"fetch", "save"} =>
        /\ seen_hashes =
               {Digest(pair) : pair \in {x \in ScannedPairs \cup FetchedPairs : Complete(x)}}
        /\ \A pair \in FetchedPairs :
               LET copies == {n \in 1..Len(all_items) :
                                  <<all_items[n].title, all_items[n].link>> = pair}
               IN  /\ Cardinality(copies) <= 1
                   /\ pair \in ScannedPairs => copies = {}

\* C11 witness: a scanned record with a title that is not trimmed, and two
\* feed items, the three raw (title, link) pairs all different and all equal
\* after trimming: the run skipped both items as already seen.
C11_Witness ==
    /\ pc = "save"
    /\ Len(fetched) = 2
    /\ fetched[1].item.title # fetched[2].item.title
    /\ fetched[1].item.link # fetched[2].item.link
    /\ Complete(TrimmedPair(fetched[1].item))
    /\ TrimmedPair(fetched[1].item) = TrimmedPair(fetched[2].item)
    /\ \E p \in Stored :
           /\ p[1] # TODAY
           /\ StoredAt(p).title # Trimmed(StoredAt(p).title)
           /\ StoredAt(p).title # fetched[1].item.title
           /\ StoredAt(p).link # fetched[2].item.link
           /\ TrimmedPair(StoredAt(p)) = TrimmedPair(fetched[1].item)
    /\ skipped_count = 2
    /\ all_items = <<>>

\* The feed items of the current run, without their source.
FetchedItems == [i \in Positions |-> fetched[i].item]

FilterStart(seen) == [seen |-> seen, items |-> <<>>, new |-> 0, skipped |-> 0]

\* What a run of date today admits over the ledger led when its sources
\* deliver items: the reader, then the filter.
ReplayAdmitted(led, today, items) ==
    LET r == load_previous_articles(led, today)
    IN  IF r.ok
        THEN ParseItems(items, FilterStart(update({}, r.hashes))).items
        ELSE <<"aborted">>

\* C14: a run that has written its entry, run again on the same date over
\* the same feed items and the same entries of the other dates, admits and
\* writes exactly the article sequence it wrote.
C14_ReplayWritesTheSame ==
    [][(pc = "save" /\ exit_code' = 0 /\ all_items # <<>>) =>
           /\ ledger'[TODAY] = JsonList(all_items)
           /\ ReplayAdmitted(ledger', TODAY, FetchedItems) = all_items]_vars

\* C14 witness: a later run wrote the entry of its date beside the entry of
\* another date, some of whose articles it skipped, and a replay over the
\* ledger it left admits the same sequence.
C14_Witness ==
    /\ pc = "exited" /\ exit_code = 0 /\ runs >= 2
    /\ all_items # <<>> /\ skipped_count > 0
    /\ ledger[TODAY] = JsonList(all_items)
    /\ \E d \in Dates : d # TODAY /\ ledger[d].kind = "json" /\ ledger[d].articles # <<>>
    /\ ReplayAdmitted(ledger, TODAY, FetchedItems) = all_items

\* C15: no step of a run changes the ledger entry of a date other than the
\* run date, and starting a run changes no entry at all.
C15_OtherDatesUntouched ==
    [][/\ pc \in {"load", "fetch", "save"} =>
              \A d \in Dates \ {TODAY} : ledger'[d] = ledger[d]
       /\ runs' # runs => ledger' = ledger]_vars

\* C15 witness: a run wrote the entry of its own date while the entry of
\* another date stood.
C15_Witness ==
    /\ pc = "exited" /\ exit_code = 0 /\ runs = MaxRuns
    /\ all_items # <<>>
    /\ ledger[TODAY] = JsonList(all_items)
    /\ \E d \in Dates : d # TODAY /\ ledger[d].kind = "json" /\ ledger[d].articles # <<>>

\* C16: new_count is the number of admitted articles and skipped_count the
\* number of well-formed items whose fingerprint was in the seen-set when they
\* were processed; over a ledger holding X alone, the items X, Y, Y give
\* admitted [Y], new_count 1 and duplicate count 2.
C16_Counts ==
    /\ new_count = Len(all_items)
    /\ skipped_count =
           Cardinality({i \in Positions :
                            /\ WellFormed(fetched[i].item)
                            /\ FingerprintOf(fetched[i].item) \in SeenBefore(i)})
    /\ (pc = "fetch" /\ fetched = <<>> /\ previous_hashes = {FingerprintOf(ItemC)}) =>
           LET st == ParseItems(<<ItemC, ItemA1, ItemA2>>,
                                [seen |-> seen_hashes, items |-> all_items,
                                 new |-> new_count, skipped |-> skipped_count])
           IN  st.items = <<Article(ItemA1)>> /\ st.new = 1 /\ st.skipped = 2

\* C16 witness: over a ledger holding one article, a run got that article
\* and a new one and ended with one admitted and one duplicate.
C16_Witness ==
    /\ pc = "exited" /\ exit_code = 0
    /\ previous_hashes = {FingerprintOf(ItemC)}
    /\ Len(fetched) = 2 /\ ~Unseen(1) /\ Unseen(2)
    /\ new_count = 1 /\ skipped_count = 1
    /\ ledger[TODAY] = JsonList(all_items)

\* The places of the well-formed records of the files the reader scans.
Scanned == {p \in Stored : p[1] # TODAY /\ WellFormed(StoredAt(p))}

\* C18 as stated: the count the reader reports is the number of fingerprints
\* in the set it returns.
C18_CountIsSetSize ==
    pc = "fetch" => previous_count = Cardinality(previous_hashes)

\* C18 amended: the count is the number of well-formed article records read;
\* it is the size of the returned set when no two of them have the same
\* fingerprint, and greater otherwise.
C18_CountIsRecordsRead ==
    pc = "fetch" =>
        /\ previous_count = Cardinality(Scanned)
        /\ previous_count >= Cardinality(previous_hashes)
        /\ (previous_count = Cardinality(previous_hashes)) <=>
               \A p \in Scanned : \A q \in Scanned :
                   p # q => FingerprintOf(StoredAt(p)) # FingerprintOf(StoredAt(q))

\* C18 witness: the same article stands in two scanned entries and the
\* reader counted it twice.
C18_Witness ==
    /\ pc = "fetch"
    /\ \E p \in Scanned : \E q \in Scanned :
           p[1] # q[1] /\ Identity(StoredAt(p)) = Identity(StoredAt(q))
    /\ previous_count > Cardinality(previous_hashes)

\* C12: in every invocation the date key of the summarizer is the key under
\* which the relay writes, and both are the calendar date in UTC.
C12_SameDateKey ==
    s_pc = "exited" => (s_today = TODAY /\ s_today = UtcDate(now))

\* C13: the summarizer loads articles from the signal file of its own run
\* date only: whenever load_articles opened a file, and whenever the language
\* model was called, the file was that of the stage's date, never the latest
\* file of another date.
C13_LoadsOnlyTodaysEntry ==
    s_pc = "exited" =>
        /\ s_loaded \in {0, s_today}
        /\ s_llm => s_loaded = s_today
        /\ s_loaded # 0 => HasNewArticles(SignalFile(ledger, s_today))

\* C13 witness: the language model was called on the articles of the stage's
\* date while a later entry with articles existed.
C13_Witness ==
    /\ s_pc = "exited"
    /\ s_llm
    /\ s_loaded = s_today
    /\ \E d \in Dates : d > s_today /\ HasNewArticles(ledger[d])

\* The ledger with the file of date d replaced.
WithFile(led, d, content) == [led EXCEPT ![d] = content]

\* The ledger with every empty entry removed, and with an empty entry for
\* every date that has none.
EmptiesRemoved(led) ==
    [d \in Dates |-> IF led[d] = JsonList(<<>>) THEN Missing ELSE led[d]]

EmptiesAdded(led) ==
    [d \in Dates |-> IF led[d] = Missing THEN JsonList(<<>>) ELSE led[d]]

\* What the summarizer did.
Did == [llm |-> s_llm, email |-> s_email, loaded |-> s_loaded, exit |-> s_exit]

Outcome(r) == [llm |-> r.llm, email |-> r.email, loaded |-> r.loaded, exit |-> r.exit]

\* C17: a missing entry and an empty entry are the same to both readers. The
\* seen-set the Ledger Reader returned is the one it returns with every empty
\* entry removed and with every missing entry present and empty; a summarizer
\* that found its entry missing or empty called no language model, sent the
\* existing briefing if and only if there was one, exited 0, and would have
\* done the same on the other of the two.
C17_MissingAsEmpty ==
    /\ pc = "fetch" =>
           /\ load_previous_articles(EmptiesRemoved(ledger), TODAY).ok
           /\ load_previous_articles(EmptiesAdded(ledger), TODAY).ok
           /\ previous_hashes = load_previous_articles(EmptiesRemoved(ledger), TODAY).hashes
           /\ previous_hashes = load_previous_articles(EmptiesAdded(ledger), TODAY).hashes
    /\ (s_pc = "exited" /\ RequiredEnv \subseteq env
            /\ SignalFile(ledger, s_today) \in {Missing, JsonList(<<>>)}) =>
           /\ ~s_llm
           /\ s_loaded = 0
           /\ s_exit = 0
           /\ s_email <=> htmlFile
           /\ \A content \in {Missing, JsonList(<<>>)} : \A llm \in LlmOutcomes :
                  Did = Outcome(main(WithFile(ledger, s_today, content), s_today,
                                     htmlFile, outFile, outDoc, outFile = "older", llm))

\* C17 witness: the summarizer found an empty entry for its date and sent the
\* existing briefing, after the Ledger Reader scanned an empty entry of another
\* date.
C17_Witness ==
    /\ s_pc = "exited"
    /\ ledger[s_today] = JsonList(<<>>)
    /\ s_email
    /\ \E d \in Dates \ {TODAY} : ledger[d] = JsonList(<<>>)

\* C19: the scripts are started in order, the summarizer only after the relay
\* exited with status 0, none when a required environment variable is
\* missing; success is printed only when both exited with status 0, and the
\* orchestrator exits with status 1 otherwise.
C19_InOrderStopAtFirstFailure ==
    /\ started \in {<<>>, <<"hermes-relay.py">>,
                    <<"hermes-relay.py", "llm_score_and_summarize.py">>}
    /\ Len(started) = 2 => (pc = "exited" /\ exit_code = 0)
    /\ s_pc # "idle" => Len(started) = 2
    /\ pc # "idle" => Len(started) >= 1
    /\ RequiredEnv \ env # {} => (started = <<>> /\ pc = "idle" /\ s_pc = "idle")
    /\ success => /\ pc = "exited" /\ exit_code = 0
                  /\ s_pc = "exited" /\ s_exit = 0
    /\ o_pc = "exited" => IF success THEN o_exit = 0 ELSE o_exit = 1
    /\ (o_pc = "exited" /\ ~success) =>
           \/ RequiredEnv \ env # {}
           \/ pc = "exited" /\ exit_code # 0 /\ s_pc = "idle"
           \/ s_pc = "exited" /\ s_exit # 0

\* C19 witness: the relay exited with status 1, the summarizer was never
\* started and the orchestrator exited with status 1.
C19_Witness ==
    /\ o_pc = "exited"
    /\ o_exit = 1
    /\ started = <<"hermes-relay.py">>
    /\ pc = "exited"
    /\ exit_code # 0
    /\ s_pc = "idle"
    /\ ~success

====
